---- MODULE Spec2Model ----
(***************************************************************************)
(* Build-time localization of the GitLens extension.                       *)
(*                                                                         *)
(*   scripts/webpack/LocalizationPlugin.mjs  the webpack plugin with the   *)
(*       quote-delimited exact pass and the identifier guard ("guarded")   *)
(*   unnamed/part_000                        the plugin without the guard, *)
(*       whose exact pass replaces the bare literal ("legacy")             *)
(*   scripts/injectLocalization.mts          the package.json translator   *)
(*                                                                         *)
(* A text is a sequence of characters, each character a one-element        *)
(* string.  The characters of the range \u4e00-\u9fa5 and the backtick   *)
(* are written by their code point: "U+8BD1" is one character.             *)
(***************************************************************************)
EXTENDS Integers, Sequences, FiniteSets, TLC

VARIABLES
    variant,        \* which of the two plugin sources runs: "guarded" | "legacy"
    enabled,        \* this.enabled
    l10nFile,       \* the file at this.l10nPath: "missing" | "malformed" | a map
    l10nMap,        \* this.l10nMap (Null until loaded)
    stats,          \* this.stats: [filesProcessed, stringsReplaced]
    hook,           \* where the plugin is in webpack's lifecycle
    builds,         \* compilations completed with this plugin instance
    emitted,        \* the assets webpack emitted for the current compilation
    assets,         \* compilation.assets: filename -> content
    passed,         \* filenames handed to replaceStrings in the current hook run
    reported,       \* what the done hook last logged (Null: nothing logged)
    source,         \* replaceStrings: the argument
    result,         \* replaceStrings: let result
    replacements,   \* replaceStrings: let replacements
    rollbacks,      \* replaceStrings: let rollbacks
    pass,           \* replaceStrings: the loop being run
    idx,            \* replaceStrings: entries of that loop already handled
    manifest,       \* injectLocalization: the file package.json
    packageJson,    \* injectLocalization: const packageJson (Null until parsed)
    changeCount,    \* injectLocalization: let changeCount
    stmt,           \* injectLocalization: the statement being run
    writes          \* injectLocalization: calls of writeFileSync so far

pluginVars == <<enabled, l10nFile, hook, builds, emitted, assets, passed, reported>>
engineVars == <<source, result, replacements, rollbacks, pass, idx>>
injectVars == <<manifest, packageJson, changeCount, stmt, writes>>
vars == <<variant, l10nMap, stats, pluginVars, engineVars, injectVars>>

Null == [null |-> TRUE]

----------------------------------------------------------------------------
(* Characters *)

\* a sample of [\u4e00-\u9fa5]
CJK == {"U+7FFB", "U+8BD1"}

\* \s
WhiteSpace == {" ", "\t", "\n"}

IsChinese(c) == c \in CJK

Keywords ==
    { <<"e","x","p","o","r","t">>, <<"i","m","p","o","r","t">>,
      <<"c","l","a","s","s">>, <<"f","u","n","c","t","i","o","n">>,
      <<"c","o","n","s","t">>, <<"l","e","t">>, <<"v","a","r">> }

HasAt(code, i, word) ==
    /\ i + Len(word) - 1 <= Len(code)
    /\ \A k \in 1..Len(word) : code[i + k - 1] = word[k]

\* /(?:export|import|class|function|const|let|var)\s+[\u4e00-\u9fa5]/
KeywordSignature(code) ==
    \E i \in 1..Len(code) : \E w \in Keywords :
        /\ HasAt(code, i, w)
        /\ \E j \in 1..Len(code) :
              LET s == i + Len(w) IN
              /\ s + j <= Len(code)
              /\ \A k \in s..(s + j - 1) : code[k] \in WhiteSpace
              /\ IsChinese(code[s + j])

\* /[{.][\u4e00-\u9fa5]+[:\s]/
MemberSignature(code) ==
    \E i \in 1..Len(code) :
        /\ code[i] \in {"{", "."}
        /\ \E j \in 1..Len(code) :
              /\ i + j + 1 <= Len(code)
              /\ \A k \in (i + 1)..(i + j) : IsChinese(code[k])
              /\ code[i + j + 1] \in ({":"} \cup WhiteSpace)

\* /[\u4e00-\u9fa5]+\s*\(/
CallSignature(code) ==
    \E i \in 1..Len(code) :
        /\ IsChinese(code[i])
        /\ \E j \in 0..Len(code) :
              /\ i + j + 1 <= Len(code)
              /\ \A k \in (i + 1)..(i + j) : code[k] \in WhiteSpace
              /\ code[i + j + 1] = "("

hasChineseIdentifier(code) ==
    KeywordSignature(code) \/ MemberSignature(code) \/ CallSignature(code)

----------------------------------------------------------------------------
(* Regular expressions.  The fragment of the language that is modelled:    *)
(* literal characters, \c for a special character c, the wildcard ".",     *)
(* groups, and the two syntax errors of an unbalanced group and of a       *)
(* quantifier with nothing to repeat.  In a replacement template $& is the *)
(* match and $$ a dollar sign.                                             *)

SpecialChars == {".", "*", "+", "?", "^", "$", "{", "}", "(", ")", "|", "[", "]", "\\"}

RECURSIVE escapeRegExp(_)
escapeRegExp(string) ==
    IF string = <<>> THEN <<>>
    ELSE (IF Head(string) \in SpecialChars
             THEN <<"\\", Head(string)>> ELSE <<Head(string)>>)
         \o escapeRegExp(Tail(string))

\* what new RegExp(src) throws on a malformed source
SyntaxError == [error |-> TRUE, atoms |-> <<>>]

Lit(c) == [any |-> FALSE, ch |-> c]
AnyChar == [any |-> TRUE, ch |-> "."]

Atoms(first, rest) ==
    IF rest.error THEN SyntaxError ELSE [error |-> FALSE, atoms |-> first \o rest.atoms]

\* the atoms of src from position i on, inside `depth` open groups
RECURSIVE ParseFrom(_, _, _)
ParseFrom(src, i, depth) ==
    IF i > Len(src)
    THEN (IF depth = 0 THEN [error |-> FALSE, atoms |-> <<>>] ELSE SyntaxError)
    ELSE LET c == src[i] IN
         CASE c = "\\" ->
                IF i = Len(src) THEN SyntaxError
                ELSE Atoms(<<Lit(src[i + 1])>>, ParseFrom(src, i + 2, depth))
           [] c = "(" ->
                IF i < Len(src) /\ src[i + 1] \in {"*", "+"} THEN SyntaxError
                ELSE ParseFrom(src, i + 1, depth + 1)
           [] c = ")" ->
                IF depth = 0 THEN SyntaxError ELSE ParseFrom(src, i + 1, depth - 1)
           [] c \in {"*", "+", "?"} /\ i = 1 -> SyntaxError
           [] OTHER ->
                Atoms(<<IF c = "." THEN AnyChar ELSE Lit(c)>>, ParseFrom(src, i + 1, depth))

\* new RegExp(src, 'g'): the atoms to match in a row, or the SyntaxError thrown
NewRegExp(src) == ParseFrom(src, 1, 0)

AtomMatches(a, c) == IF a.any THEN c \notin {"\n", "\r"} ELSE c = a.ch

MatchesAt(text, i, atoms) ==
    /\ i + Len(atoms) - 1 <= Len(text)
    /\ \A k \in 1..Len(atoms) : AtomMatches(atoms[k], text[i + k - 1])

RECURSIVE Expand(_, _)
Expand(template, match) ==
    IF template = <<>> THEN <<>>
    ELSE IF Head(template) = "$" /\ Len(template) >= 2 /\ template[2] = "$"
         THEN <<"$">> \o Expand(Tail(Tail(template)), match)
    ELSE IF Head(template) = "$" /\ Len(template) >= 2 /\ template[2] = "&"
         THEN match \o Expand(Tail(Tail(template)), match)
    ELSE <<Head(template)>> \o Expand(Tail(template), match)

\* text.replace(regex, replacement) from position i on, regex global: the
\* leftmost matches, none overlapping; an empty regex matches before every
\* character and at the end.  literal: the replacement is a function's
\* return value, taken as it is; otherwise it is a template.
RECURSIVE ReplaceFrom(_, _, _, _, _)
ReplaceFrom(text, i, atoms, replacement, literal) ==
    LET by(m) == IF literal THEN replacement ELSE Expand(replacement, m) IN
    IF i > Len(text) THEN (IF atoms = <<>> THEN by(<<>>) ELSE <<>>)
    ELSE IF atoms = <<>>
         THEN by(<<>>) \o <<text[i]>> \o ReplaceFrom(text, i + 1, atoms, replacement, literal)
    ELSE IF MatchesAt(text, i, atoms)
         THEN by(SubSeq(text, i, i + Len(atoms) - 1))
              \o ReplaceFrom(text, i + Len(atoms), atoms, replacement, literal)
    ELSE <<text[i]>> \o ReplaceFrom(text, i + 1, atoms, replacement, literal)

\* Replace without the g flag: the leftmost match only
ReplaceFirstOnly(text, atoms, replacement, literal) ==
    LET hits == { i \in 1..(Len(text) + 1) : MatchesAt(text, i, atoms) } IN
    IF hits = {} THEN text
    ELSE LET i == CHOOSE h \in hits : \A g \in hits : h <= g
             m == SubSeq(text, i, i + Len(atoms) - 1)
         IN  SubSeq(text, 1, i - 1)
             \o (IF literal THEN replacement ELSE Expand(replacement, m))
             \o SubSeq(text, i + Len(atoms), Len(text))

Replace(text, atoms, replacement, literal) ==
    ReplaceFrom(text, 1, atoms, replacement, literal)

----------------------------------------------------------------------------
(* replaceStrings, one entry at a time.  A step yields the text and what   *)
(* became of the entry: "replaced", "rollback", "none" (no match),         *)
(* "skipped" (a metadata key) or "error" (the regex did not compile).      *)

\* the double quote, the single quote and the backtick (written by its code point)
Quotes == <<"\"", "'", "U+0060">>

\* one turn of the forEach over the quote characters
QuoteTurn(text, quoteChar, en, zh) ==
    LET quote == escapeRegExp(<<quoteChar>>)
        regex == NewRegExp(quote \o escapeRegExp(en) \o quote)
    IN  Replace(text, regex.atoms, <<quoteChar>> \o zh \o <<quoteChar>>, TRUE)

\* Guard that counts the rollback and keeps the replaced text
GuardKeepsCandidate(beforeReplace, candidate, replaced) ==
    IF replaced /\ hasChineseIdentifier(candidate) /\ ~hasChineseIdentifier(beforeReplace)
    THEN [text |-> candidate, outcome |-> "rollback"]
    ELSE IF replaced THEN [text |-> candidate, outcome |-> "replaced"]
    ELSE [text |-> candidate, outcome |-> "none"]

\* the identifier check after a replacement
Guard(beforeReplace, candidate, replaced) ==
    IF replaced /\ hasChineseIdentifier(candidate) /\ ~hasChineseIdentifier(beforeReplace)
    THEN [text |-> beforeReplace, outcome |-> "rollback"]
    ELSE IF replaced THEN [text |-> candidate, outcome |-> "replaced"]
    ELSE [text |-> candidate, outcome |-> "none"]

IsMetadataKey(en) == en # <<>> /\ Head(en) = "_"

\* the text of the guarded exact pass after the three quote turns
QuotedCandidate(text, en, zh) ==
    QuoteTurn(QuoteTurn(QuoteTurn(text, Quotes[1], en, zh), Quotes[2], en, zh), Quotes[3], en, zh)

ExactEntryGuarded(text, entry) ==
    IF IsMetadataKey(entry.en) THEN [text |-> text, outcome |-> "skipped"]
    ELSE LET t1 == QuoteTurn(text, Quotes[1], entry.en, entry.zh)
             t2 == QuoteTurn(t1, Quotes[2], entry.en, entry.zh)
             t3 == QuoteTurn(t2, Quotes[3], entry.en, entry.zh)
         IN  Guard(text, t3, t1 # text \/ t2 # t1 \/ t3 # t2)

ExactEntryLegacy(text, entry) ==
    LET regex == NewRegExp(escapeRegExp(entry.en))
        newResult == Replace(text, regex.atoms, entry.zh, FALSE)
    IN  [text |-> newResult, outcome |-> IF newResult # text THEN "replaced" ELSE "none"]

ExactEntry(v, text, entry) ==
    IF v = "guarded" THEN ExactEntryGuarded(text, entry) ELSE ExactEntryLegacy(text, entry)

\* PatternEntryGuarded without the identifier check
PatternEntryUnchecked(text, pattern) ==
    LET regex == NewRegExp(pattern.match) IN
    IF regex.error THEN [text |-> text, outcome |-> "error"]
    ELSE LET candidate == Replace(text, regex.atoms, pattern.replace, FALSE) IN
         [text |-> candidate, outcome |-> IF candidate # text THEN "replaced" ELSE "none"]

\* PatternEntryGuarded whose catch block counts a rollback
PatternEntryErrorCounted(text, pattern) ==
    LET regex == NewRegExp(pattern.match) IN
    IF regex.error THEN [text |-> text, outcome |-> "rollback"]
    ELSE LET candidate == Replace(text, regex.atoms, pattern.replace, FALSE) IN
         IF hasChineseIdentifier(candidate) /\ ~hasChineseIdentifier(text)
         THEN [text |-> text, outcome |-> "rollback"]
         ELSE [text |-> candidate,
               outcome |-> IF candidate # text THEN "replaced" ELSE "none"]

PatternEntryGuarded(text, pattern) ==
    LET regex == NewRegExp(pattern.match) IN
    IF regex.error THEN [text |-> text, outcome |-> "error"]
    ELSE LET candidate == Replace(text, regex.atoms, pattern.replace, FALSE) IN
         IF hasChineseIdentifier(candidate) /\ ~hasChineseIdentifier(text)
         THEN [text |-> text, outcome |-> "rollback"]
         ELSE [text |-> candidate,
               outcome |-> IF candidate # text THEN "replaced" ELSE "none"]

PatternEntryLegacy(text, pattern) ==
    LET regex == NewRegExp(pattern.match) IN
    IF regex.error THEN [text |-> text, outcome |-> "error"]
    ELSE LET newResult == Replace(text, regex.atoms, pattern.replace, FALSE) IN
         [text |-> newResult, outcome |-> IF newResult # text THEN "replaced" ELSE "none"]

PatternEntry(v, text, pattern) ==
    IF v = "guarded" THEN PatternEntryGuarded(text, pattern)
    ELSE PatternEntryLegacy(text, pattern)

\* the locals of replaceStrings after a step
Tally(locals, step) ==
    [text |-> step.text,
     replacements |-> locals.replacements + (IF step.outcome = "replaced" THEN 1 ELSE 0),
     rollbacks |-> locals.rollbacks + (IF step.outcome = "rollback" THEN 1 ELSE 0)]

\* the three loops, each over its entries in their order
RECURSIVE ExactPass(_, _, _)
ExactPass(v, locals, entries) ==
    IF entries = <<>> THEN locals
    ELSE ExactPass(v, Tally(locals, ExactEntry(v, locals.text, Head(entries))), Tail(entries))

RECURSIVE PatternPass(_, _, _)
PatternPass(v, locals, patterns) ==
    IF patterns = <<>> THEN locals
    ELSE PatternPass(v, Tally(locals, PatternEntry(v, locals.text, Head(patterns))),
                     Tail(patterns))

\* the counters after the if that closes replaceStrings
Counted(st, n, r) ==
    IF n > 0 \/ r > 0
    THEN [filesProcessed |-> st.filesProcessed + 1,
          stringsReplaced |-> st.stringsReplaced + n]
    ELSE st

\* replaceStrings(source, filename) as one call: the text returned and the
\* locals it ends with
ReplaceStrings(v, map, src) ==
    IF map = Null THEN [text |-> src, replacements |-> 0, rollbacks |-> 0]
    ELSE LET l0 == [text |-> src, replacements |-> 0, rollbacks |-> 0]
             l1 == ExactPass(v, l0, map.exact)
             l2 == PatternPass(v, l1, map.patterns)
         IN  PatternPass(v, l2, map.statusBar)

----------------------------------------------------------------------------
(* Inputs *)

MaxExact == 2
MaxPatterns == 1
MaxStatusBar == 1

Variants == {"guarded", "legacy"}

\* the sequences of at most n different elements of S
DistinctSeqs(S, n) ==
    UNION { { q \in [1..k -> S] : \A i, j \in 1..k : i # j => q[i] # q[j] } : k \in 0..n }

\* webviews.exact: "A" -> U+8BD1, "x" -> U+7FFB, "B" -> a translation that
\* ends in "(", and a metadata key
ExactA == [en |-> <<"A">>, zh |-> <<"U+8BD1">>]
ExactX == [en |-> <<"x">>, zh |-> <<"U+7FFB">>]
ExactB == [en |-> <<"B">>, zh |-> <<"U+8BD1", "(">>]
ExactMeta == [en |-> <<"_">>, zh |-> <<"x">>]

ExactPool == {ExactA, ExactX, ExactB, ExactMeta}

\* webviews.patterns: x -> U+8BD1, A -> x, and a regex that does not compile
PatternX == [match |-> <<"x">>, replace |-> <<"U+8BD1">>]
PatternA == [match |-> <<"A">>, replace |-> <<"x">>]
PatternBad == [match |-> <<"(">>, replace |-> <<"x">>]

PatternPool == {PatternX, PatternA, PatternBad}

\* statusBar.patterns: U+8BD1 -> U+8BD1 U+7FFB, and a regex that does not compile
StatusBarZh == [match |-> <<"U+8BD1">>, replace |-> <<"$", "&", "U+7FFB">>]
StatusBarBad == [match |-> <<")">>, replace |-> <<>>]

StatusBarPool == {StatusBarZh, StatusBarBad}

EngineMaps ==
    { [exact |-> e, patterns |-> p, statusBar |-> b] :
        e \in DistinctSeqs(ExactPool, MaxExact),
        p \in DistinctSeqs(PatternPool, MaxPatterns),
        b \in DistinctSeqs(StatusBarPool, MaxStatusBar) }

\* artifact texts
Sources ==
    { <<"\"", "A", "\"">>,
      <<"'", "A", "'">>,
      <<"U+0060", "A", "U+0060">>,
      <<"\"", "A", "'">>,
      <<"A", "=", "\"", "A", "\"">>,
      <<"\"", "A", "\"", "A", "\"">>,
      <<"\"", "A", "\"", "\"", "A", "\"">>,
      <<"l", "e", "t", " ", "x">>,
      <<"l", "e", "t", " ", "x", "=", "'", "A", "'">>,
      <<"U+8BD1", "(", "l", "e", "t", " ", "x">>,
      <<"\"", "B", "\"", "\"", "A", "\"">>,
      <<"\"", "_", "\"", "x">>,
      <<"'", "x", "'", "U+8BD1">> }

----------------------------------------------------------------------------
(* One call of replaceStrings, entry by entry *)

NoStats == [filesProcessed |-> 0, stringsReplaced |-> 0]
NoAssets == <<>>

\* injectLocalization is not running
InjectIdle ==
    /\ manifest = Null
    /\ packageJson = Null
    /\ changeCount = 0
    /\ stmt = "idle"
    /\ writes = 0

PluginIdle ==
    /\ enabled = TRUE
    /\ l10nFile = Null
    /\ hook = "processAssets"
    /\ builds = 0
    /\ emitted = NoAssets
    /\ assets = NoAssets
    /\ passed = {}
    /\ reported = Null

EngineInit ==
    /\ variant \in Variants
    /\ l10nMap \in EngineMaps
    /\ stats = NoStats
    /\ PluginIdle
    /\ InjectIdle
    /\ source \in Sources
    /\ result = source
    /\ replacements = 0
    /\ rollbacks = 0
    /\ pass = "exact"
    /\ idx = 0

Locals == [text |-> result, replacements |-> replacements, rollbacks |-> rollbacks]

\* the locals become l and the loop moves on to its next entry
Advance(l) ==
    /\ result' = l.text
    /\ replacements' = l.replacements
    /\ rollbacks' = l.rollbacks
    /\ idx' = idx + 1
    /\ UNCHANGED <<variant, l10nMap, stats, pluginVars, injectVars, source, pass>>

\* the loop over webviews.exact has handled all its entries
NextPass(from, entries, to) ==
    /\ pass = from
    /\ idx = Len(entries)
    /\ pass' = to
    /\ idx' = 0
    /\ UNCHANGED <<variant, l10nMap, stats, pluginVars, injectVars, source, result, replacements,
                   rollbacks>>

ExactRule ==
    /\ pass = "exact"
    /\ idx < Len(l10nMap.exact)
    /\ Advance(Tally(Locals, ExactEntry(variant, result, l10nMap.exact[idx + 1])))

ExactDone == NextPass("exact", l10nMap.exact, "patterns")

\* WebviewPattern that replaces in the argument, not in the text so far
WebviewPatternOnSource ==
    /\ pass = "patterns"
    /\ idx < Len(l10nMap.patterns)
    /\ Advance(Tally(Locals, PatternEntry(variant, source, l10nMap.patterns[idx + 1])))

WebviewPattern ==
    /\ pass = "patterns"
    /\ idx < Len(l10nMap.patterns)
    /\ Advance(Tally(Locals, PatternEntry(variant, result, l10nMap.patterns[idx + 1])))

PatternsDone == NextPass("patterns", l10nMap.patterns, "statusBar")

StatusBarPattern ==
    /\ pass = "statusBar"
    /\ idx < Len(l10nMap.statusBar)
    /\ Advance(Tally(Locals, PatternEntry(variant, result, l10nMap.statusBar[idx + 1])))

\* the counters are merged into this.stats and result is returned
Return ==
    /\ pass = "statusBar"
    /\ idx = Len(l10nMap.statusBar)
    /\ pass' = "returned"
    /\ stats' = Counted(stats, replacements, IF variant = "guarded" THEN rollbacks ELSE 0)
    /\ UNCHANGED <<variant, l10nMap, pluginVars, injectVars, source, result, replacements,
                   rollbacks, idx>>

EngineNext ==
    \/ ExactRule
    \/ ExactDone
    \/ WebviewPattern
    \/ PatternsDone
    \/ StatusBarPattern
    \/ Return

SpecEngine == EngineInit /\ [][EngineNext]_vars

----------------------------------------------------------------------------
(* Properties of one call of replaceStrings (checked under SpecEngine) *)

CurrentEntries ==
    CASE pass = "exact" -> l10nMap.exact
      [] pass = "patterns" -> l10nMap.patterns
      [] pass = "statusBar" -> l10nMap.statusBar
      [] OTHER -> <<>>

\* the loop is about to handle an entry
AtEntry == idx < Len(CurrentEntries)

CurrentEntry == CurrentEntries[idx + 1]

\* the entry about to be handled is a pattern whose regex does not compile
AtMalformedPattern ==
    AtEntry /\ pass # "exact" /\ NewRegExp(CurrentEntry.match).error

\* the text the entry about to be handled makes of result, before any check
CandidateNow ==
    IF pass = "exact"
    THEN (IF IsMetadataKey(CurrentEntry.en) THEN result
          ELSE QuotedCandidate(result, CurrentEntry.en, CurrentEntry.zh))
    ELSE (IF NewRegExp(CurrentEntry.match).error THEN result
          ELSE Replace(result, NewRegExp(CurrentEntry.match).atoms, CurrentEntry.replace, FALSE))

\* the entry is discarded: the text and the replacement count stay, one rollback more
Discarded ==
    /\ result' = result
    /\ rollbacks' = rollbacks + 1
    /\ replacements' = replacements

\* candidate carries a signature of a kind that before does not
ProducesSignature(before, candidate) ==
    \/ KeywordSignature(candidate) /\ ~KeywordSignature(before)
    \/ MemberSignature(candidate) /\ ~MemberSignature(before)
    \/ CallSignature(candidate) /\ ~CallSignature(before)

\* C1 as claimed: whenever a step of the guarded plugin would produce a
\* corruption signature (for instance a keyword followed by a Chinese
\* character), whatever the text was before, the step is discarded: the text
\* stays, a rollback is counted and no replacement.
C1_DiscardedWheneverSignatureProduced ==
    [][ (variant = "guarded" /\ AtEntry /\ ProducesSignature(result, CandidateNow))
            => Discarded ]_vars

\* C1, amended: a step of the guarded plugin whose text carries a corruption
\* signature while the text before the step carried none is discarded (the
\* text is exactly the one before the step, one rollback more, no replacement
\* more); every other step leaves its text in result and counts no rollback;
\* either way the loop goes on with the next entry.
C1_DiscardedWhenNewlyCorrupt ==
    [][ (variant = "guarded" /\ AtEntry) =>
          /\ IF hasChineseIdentifier(CandidateNow) /\ ~hasChineseIdentifier(result)
             THEN Discarded
             ELSE /\ result' = CandidateNow
                  /\ rollbacks' = rollbacks
          /\ pass' = pass
          /\ idx' = idx + 1 ]_vars

\* a rollback and, in the same run, an accepted replacement
C1_Witness ==
    /\ variant = "guarded"
    /\ pass = "returned"
    /\ rollbacks >= 1
    /\ replacements >= 1
    /\ result # source

\* C2: when the artifact text carries no corruption signature, neither does
\* the text after any entry of the guarded plugin, nor the text returned.
C2_NeverCorrupts ==
    (variant = "guarded" /\ ~hasChineseIdentifier(source)) => ~hasChineseIdentifier(result)

\* a clean text, returned changed, after an entry was rolled back
C2_Witness ==
    /\ variant = "guarded"
    /\ ~hasChineseIdentifier(source)
    /\ pass = "returned"
    /\ rollbacks >= 1
    /\ result # source
    /\ ~hasChineseIdentifier(result)

\* the entries of a pass applied in their order, each to the text of the one before
RECURSIVE InOrder(_, _, _, _)
InOrder(v, kind, text, entries) ==
    IF entries = <<>> THEN text
    ELSE InOrder(v, kind,
                 IF kind = "exact" THEN ExactEntry(v, text, Head(entries)).text
                 ELSE PatternEntry(v, text, Head(entries)).text,
                 Tail(entries))

\* the entries handled so far of each pass
Handled(kind) ==
    LET all == IF kind = "exact" THEN l10nMap.exact
               ELSE IF kind = "patterns" THEN l10nMap.patterns ELSE l10nMap.statusBar
        rank(k) == CASE k = "exact" -> 1 [] k = "patterns" -> 2 [] k = "statusBar" -> 3
                     [] OTHER -> 4
    IN  IF rank(pass) > rank(kind) THEN all
        ELSE IF rank(pass) = rank(kind) THEN SubSeq(all, 1, idx) ELSE <<>>

\* C3: at every point of a call, result is the source with the entries
\* handled so far applied in sequence: the exact entries first, then the
\* webviews patterns in their order, then the statusBar patterns in their
\* order, each to the text the one before it produced; no entry of a later
\* pass is applied while an earlier pass has entries left.
C3_SequentialComposition ==
    /\ result = InOrder(variant, "statusBar",
                    InOrder(variant, "patterns",
                        InOrder(variant, "exact", source, Handled("exact")),
                        Handled("patterns")),
                    Handled("statusBar"))
    /\ pass = "exact" => Handled("patterns") = <<>> /\ Handled("statusBar") = <<>>
    /\ pass = "patterns" => Handled("exact") = l10nMap.exact /\ Handled("statusBar") = <<>>
    /\ pass \in {"statusBar", "returned"} =>
          Handled("exact") = l10nMap.exact /\ Handled("patterns") = l10nMap.patterns

\* every pass has an entry, and every entry of the map replaced something
C3_Witness ==
    /\ pass = "returned"
    /\ l10nMap.exact # <<>>
    /\ l10nMap.patterns # <<>>
    /\ l10nMap.statusBar # <<>>
    /\ replacements = Len(l10nMap.exact) + Len(l10nMap.patterns) + Len(l10nMap.statusBar)

Chars(text) == { text[i] : i \in 1..Len(text) }

QuoteChars == { Quotes[i] : i \in 1..Len(Quotes) }

\* the map holds exact entries only, and literals and translations share no
\* character: a literal is not empty and holds no quote and no Chinese
\* character, a translation is not empty and holds Chinese characters only
DisjointRules(map) ==
    /\ map.patterns = <<>>
    /\ map.statusBar = <<>>
    /\ \A i \in 1..Len(map.exact) :
          LET e == map.exact[i] IN
          \/ IsMetadataKey(e.en)
          \/ /\ e.en # <<>>
             /\ Chars(e.en) \cap (QuoteChars \cup CJK) = {}
             /\ e.zh # <<>>
             /\ Chars(e.zh) \subseteq CJK

\* no two quoted occurrences of a literal of the map share a quote in text
NoSharedQuote(map, text) ==
    \A k \in 1..Len(map.exact) : \A q \in QuoteChars :
        LET lit == <<q>> \o map.exact[k].en \o <<q>> IN
        \A i, j \in 1..Len(text) :
            (i < j /\ HasAt(text, i, lit) /\ HasAt(text, j, lit)) => j >= i + Len(lit)

C9_MalformedPatternSkipped ==
    [][ AtMalformedPattern =>
          /\ result' = result
          /\ replacements' = replacements
          /\ rollbacks' = rollbacks
          /\ pass' = pass
          /\ idx' = idx + 1 ]_vars

\* both pattern passes held a malformed pattern, and the call returned with
\* an exact entry applied
C9_Witness ==
    /\ pass = "returned"
    /\ \E i \in 1..Len(l10nMap.patterns) : NewRegExp(l10nMap.patterns[i].match).error
    /\ \E i \in 1..Len(l10nMap.statusBar) : NewRegExp(l10nMap.statusBar[i].match).error
    /\ replacements >= 1

----------------------------------------------------------------------------
(* The plugin in webpack's lifecycle: apply once, then for every           *)
(* compilation the processAssets hook and the done hook.                   *)

MaxBuilds == 2
MaxAssets == 2

\* the file at l10nPath
MissingFile == [exists |-> FALSE, json |-> Null]
MalformedFile == [exists |-> TRUE, json |-> Null]
MapFile(map) == [exists |-> TRUE, json |-> map]

PluginMaps ==
    { [exact |-> <<ExactA>>, patterns |-> <<PatternX>>, statusBar |-> <<>>],
      [exact |-> <<>>, patterns |-> <<PatternA>>, statusBar |-> <<StatusBarBad>>] }

Filenames ==
    { <<"a", ".", "j", "s">>,
      <<"b", ".", "h", "t", "m", "l">>,
      <<"d", ".", "m", "j", "s">> }

Contents ==
    { <<"\"", "A", "\"">>,
      <<"l", "e", "t", " ", "x">>,
      <<"A", "=", "\"", "A", "\"">> }

\* what a compilation may emit: at most MaxAssets assets, no filename twice
AssetLists ==
    { q \in UNION { [1..k -> [filename : Filenames, content : Contents]] : k \in 0..MaxAssets } :
        \A i, j \in 1..Len(q) : i # j => q[i].filename # q[j].filename }

\* loadLocalizationMap(): null when disabled, when the file is missing and
\* when it does not parse
loadLocalizationMap(isEnabled, file) ==
    IF ~isEnabled THEN Null
    ELSE IF ~file.exists THEN Null
    ELSE file.json

EndsWith(filename, suffix) ==
    /\ Len(filename) >= Len(suffix)
    /\ SubSeq(filename, Len(filename) - Len(suffix) + 1, Len(filename)) = suffix

\* Eligible with the dot of the regex left unescaped: any character before js
EligibleAnyCharBeforeJs(v, filename) ==
    \/ Len(filename) >= 3 /\ EndsWith(filename, <<"j", "s">>)
    \/ v # "guarded" /\ Len(filename) >= 5 /\ EndsWith(filename, <<"h", "t", "m", "l">>)

\* /\.js$/.test(filename), and /\.(js|html)$/.test(filename) in the legacy source
Eligible(v, filename) ==
    IF v = "guarded" THEN EndsWith(filename, <<".", "j", "s">>)
    ELSE \/ EndsWith(filename, <<".", "j", "s">>)
         \/ EndsWith(filename, <<".", "h", "t", "m", "l">>)

\* the loop of the processAssets handler over the assets from position i on:
\* the assets, this.stats and the filenames handed to replaceStrings
RECURSIVE ProcessFrom(_, _, _, _)
ProcessFrom(v, map, i, acc) ==
    IF i > Len(acc.assets) THEN acc
    ELSE LET asset == acc.assets[i] IN
         IF ~Eligible(v, asset.filename) THEN ProcessFrom(v, map, i + 1, acc)
         ELSE LET content == asset.content
                  r == ReplaceStrings(v, map, content)
                  replacedContent == r.text
              IN  ProcessFrom(v, map, i + 1,
                    [assets |-> IF replacedContent # content
                                THEN [acc.assets EXCEPT ![i].content = replacedContent]
                                ELSE acc.assets,
                     stats |-> Counted(acc.stats, r.replacements,
                                       IF v = "guarded" THEN r.rollbacks ELSE 0),
                     passed |-> acc.passed \cup {asset.filename}])

EngineIdle ==
    /\ source = <<>>
    /\ result = <<>>
    /\ replacements = 0
    /\ rollbacks = 0
    /\ pass = "idle"
    /\ idx = 0

\* the state the constructor leaves
Init ==
    /\ variant \in Variants
    /\ enabled \in BOOLEAN
    /\ l10nFile \in {MissingFile, MalformedFile} \cup { MapFile(m) : m \in PluginMaps }
    /\ l10nMap = Null
    /\ stats = NoStats
    /\ hook = "constructed"
    /\ builds = 0
    /\ emitted = NoAssets
    /\ assets = NoAssets
    /\ passed = {}
    /\ reported = Null
    /\ EngineIdle
    /\ InjectIdle

\* apply(compiler): returns early when disabled or when no map was loaded,
\* otherwise taps the hooks
Apply ==
    /\ hook = "constructed"
    /\ IF ~enabled
       THEN /\ hook' = "disabled"
            /\ l10nMap' = l10nMap
       ELSE /\ l10nMap' = loadLocalizationMap(enabled, l10nFile)
            /\ hook' = IF l10nMap' = Null THEN "skipped" ELSE "tapped"
    /\ UNCHANGED <<variant, stats, enabled, l10nFile, builds, emitted, assets, passed,
                   reported, engineVars, injectVars>>

\* webpack starts a compilation (the first, or the next one of a watch run)
\* and emits its assets
Compilation ==
    /\ hook = "tapped"
    /\ builds < MaxBuilds
    /\ \E list \in AssetLists :
          /\ emitted' = list
          /\ assets' = list
    /\ passed' = {}
    /\ hook' = "processAssets"
    /\ UNCHANGED <<variant, l10nMap, stats, enabled, l10nFile, builds, reported, engineVars,
                   injectVars>>

\* the processAssets handler
ProcessAssets ==
    /\ hook = "processAssets"
    /\ LET end == ProcessFrom(variant, l10nMap, 1,
                              [assets |-> assets, stats |-> stats, passed |-> {}])
       IN  /\ assets' = end.assets
           /\ stats' = end.stats
           /\ passed' = end.passed
    /\ hook' = "done"
    /\ UNCHANGED <<variant, l10nMap, enabled, l10nFile, builds, emitted, reported, engineVars,
                   injectVars>>

\* the done handler: logs this.stats when filesProcessed > 0
Done ==
    /\ hook = "done"
    /\ reported' = IF stats.filesProcessed > 0 THEN stats ELSE Null
    /\ builds' = builds + 1
    /\ hook' = "tapped"
    /\ UNCHANGED <<variant, l10nMap, stats, enabled, l10nFile, emitted, assets, passed,
                   engineVars, injectVars>>

Next ==
    \/ Apply
    \/ Compilation
    \/ ProcessAssets
    \/ Done

Spec == Init /\ [][Next]_vars

----------------------------------------------------------------------------
(* Properties of the plugin's hooks (checked under Spec) *)

\* the suffixes of the filenames the hook processes
EligibleSuffixes ==
    IF variant = "guarded" THEN { <<".", "j", "s">> }
    ELSE { <<".", "j", "s">>, <<".", "h", "t", "m", "l">> }

MatchesSuffixSet(filename) == \E suffix \in EligibleSuffixes : EndsWith(filename, suffix)

\* C8: after the processAssets hook, an artifact whose filename does not
\* match the eligible suffix set was not handed to replaceStrings and has the
\* content webpack emitted; an artifact whose filename matches was handed to
\* it and has the text replaceStrings returned for its content (so it differs
\* from what was emitted only when replaceStrings returned another text); no
\* artifact is added, dropped or renamed.
C8_PassThrough ==
    hook = "done" =>
        /\ Len(assets) = Len(emitted)
        /\ \A i \in 1..Len(emitted) :
              /\ assets[i].filename = emitted[i].filename
              /\ IF MatchesSuffixSet(emitted[i].filename)
                 THEN /\ emitted[i].filename \in passed
                      /\ assets[i].content
                            = ReplaceStrings(variant, l10nMap, emitted[i].content).text
                 ELSE /\ emitted[i].filename \notin passed
                      /\ assets[i].content = emitted[i].content

\* a build with an artifact that passed through and one that was updated
C8_Witness ==
    /\ hook = "done"
    /\ \E i \in 1..Len(emitted) :
          ~MatchesSuffixSet(emitted[i].filename) /\ assets[i] = emitted[i]
    /\ \E i \in 1..Len(emitted) :
          MatchesSuffixSet(emitted[i].filename) /\ assets[i].content # emitted[i].content

\* this.stats of a plugin that saw only the assets from position i on
RECURSIVE BuildStatsFrom(_, _, _, _, _)
BuildStatsFrom(v, map, list, i, st) ==
    IF i > Len(list) THEN st
    ELSE IF ~Eligible(v, list[i].filename) THEN BuildStatsFrom(v, map, list, i + 1, st)
    ELSE LET r == ReplaceStrings(v, map, list[i].content) IN
         BuildStatsFrom(v, map, list, i + 1,
                        Counted(st, r.replacements, IF v = "guarded" THEN r.rollbacks ELSE 0))

\* the counters of the last compilation alone
StatsOfBuild == BuildStatsFrom(variant, l10nMap, emitted, 1, NoStats)

\* C10 as claimed: what the done hook reports at the end of a build are the
\* counters of that build alone (the artifacts touched and the replacements
\* accepted in it), whatever the builds before it counted.
C10_StatsOfThisBuildOnly ==
    (hook = "tapped" /\ builds >= 1) =>
        reported = (IF StatsOfBuild.filesProcessed > 0 THEN StatsOfBuild ELSE Null)

----------------------------------------------------------------------------
(* injectLocalization(): package.json translated from l10n/zh-cn.json.     *)
(* A field a JSON object does not have reads as Undefined.                 *)

MaxEntries == 1

Undefined == "<undefined>"

\* a string that counts as true in a condition
Truthy(x) == x # Undefined /\ x # ""

\* contributes.commands, the views of a container, configuration.properties
CommandPool ==
    { [command |-> "gitlens.a", title |-> "Open", category |-> "GitLens"],
      [command |-> "gitlens.a", title |-> "Open", category |-> Undefined],
      [command |-> "gitlens.b", title |-> "Close", category |-> Undefined] }

ViewPool ==
    { [id |-> "gitlens.a", name |-> "Commits", contextualTitle |-> "GitLens"],
      [id |-> "gitlens.a", name |-> "Commits", contextualTitle |-> Undefined] }

PropertyPool ==
    { [key |-> "gitlens.a", description |-> "Text", markdownDescription |-> "Markdown"],
      [key |-> "gitlens.a", description |-> "Text", markdownDescription |-> Undefined],
      [key |-> "gitlens.a", description |-> "", markdownDescription |-> "Markdown"] }

\* the parsed package.json; properties.present is false when
\* contributes.configuration or its properties are missing
Manifests ==
    { [commands |-> c, views |-> <<[container |-> "gitlens", views |-> w]>>,
       properties |-> p] :
        c \in DistinctSeqs(CommandPool, MaxEntries),
        w \in DistinctSeqs(ViewPool, MaxEntries),
        p \in { [present |-> FALSE, entries |-> <<>>] }
              \cup { [present |-> TRUE, entries |-> e] :
                       e \in DistinctSeqs(PropertyPool, MaxEntries) } }

\* the file package.json: its parsed content (Null when it does not parse)
\* and whether its bytes are those of JSON.stringify(content, null, '\t') + '\n'
ManifestFiles ==
    { [json |-> Null, tabs |-> FALSE] }
    \cup { [json |-> m, tabs |-> t] : m \in Manifests, t \in BOOLEAN }

\* a section of contributions: present or not, and its entries by identifier
NoSection == [present |-> FALSE, entries |-> {}]
Section(entries) == [present |-> TRUE, entries |-> entries]

CommandSections ==
    { NoSection,
      Section({[id |-> "gitlens.a", title |-> "zh-title", category |-> "zh-category"]}),
      Section({[id |-> "gitlens.a", title |-> "zh-title", category |-> Undefined]}) }

ViewSections ==
    { NoSection,
      Section({[id |-> "gitlens.a", name |-> "zh-name", contextualTitle |-> "zh-context"]}) }

ConfigurationSections ==
    { NoSection,
      Section({[id |-> "gitlens.a", description |-> "zh-text",
                markdownDescription |-> "zh-markdown"]}),
      Section({[id |-> "gitlens.a", description |-> "zh-text",
                markdownDescription |-> Undefined]}) }

ContributionMaps ==
    { [contributions |-> [commands |-> c, views |-> w, configuration |-> p]] :
        c \in CommandSections, w \in ViewSections, p \in ConfigurationSections }

\* section[id]
Lookup(section, id) ==
    IF \E t \in section.entries : t.id = id
    THEN [found |-> TRUE, value |-> CHOOSE t \in section.entries : t.id = id]
    ELSE [found |-> FALSE, value |-> [id |-> id]]

\* a field overwritten when the translation supplies it
Overwritten(old, new) == IF Truthy(new) THEN new ELSE old

Count(x) == IF x THEN 1 ELSE 0

\* the body of the loop over contributes.commands
TranslateCommand(cmd, section) ==
    LET translation == Lookup(section, cmd.command) IN
    IF ~translation.found THEN [entry |-> cmd, changes |-> 0]
    ELSE [entry |-> [cmd EXCEPT !.title = Overwritten(@, translation.value.title),
                                !.category = Overwritten(@, translation.value.category)],
          changes |-> Count(Truthy(translation.value.title))
                      + Count(Truthy(translation.value.category))]

\* the body of the loop over the views of a container
TranslateView(view, section) ==
    LET translation == Lookup(section, view.id) IN
    IF ~translation.found THEN [entry |-> view, changes |-> 0]
    ELSE [entry |-> [view EXCEPT !.name = Overwritten(@, translation.value.name),
                                 !.contextualTitle =
                                     Overwritten(@, translation.value.contextualTitle)],
          changes |-> Count(Truthy(translation.value.name))
                      + Count(Truthy(translation.value.contextualTitle))]

\* TranslateProperty without the test of the property's own field
TranslatePropertyUngated(config, section) ==
    LET translation == Lookup(section, config.key)
        d == translation.found /\ Truthy(translation.value.description)
        m == translation.found /\ Truthy(translation.value.markdownDescription)
    IN  [entry |-> [config EXCEPT
                       !.description = IF d THEN translation.value.description ELSE @,
                       !.markdownDescription =
                           IF m THEN translation.value.markdownDescription ELSE @],
         changes |-> Count(d) + Count(m)]

\* the body of the loop over configuration.properties: a description is
\* overwritten only when the property has one
TranslateProperty(config, section) ==
    LET translation == Lookup(section, config.key)
        d == translation.found /\ Truthy(translation.value.description)
                /\ Truthy(config.description)
        m == translation.found /\ Truthy(translation.value.markdownDescription)
                /\ Truthy(config.markdownDescription)
    IN  [entry |-> [config EXCEPT
                       !.description = IF d THEN translation.value.description ELSE @,
                       !.markdownDescription =
                           IF m THEN translation.value.markdownDescription ELSE @],
         changes |-> Count(d) + Count(m)]

\* the body of the loop of one kind
TranslateEntry(kind, entry, section) ==
    CASE kind = "command" -> TranslateCommand(entry, section)
      [] kind = "view" -> TranslateView(entry, section)
      [] OTHER -> TranslateProperty(entry, section)

\* a loop: every entry translated, the changes added up
RECURSIVE Changes(_, _, _)
Changes(kind, entries, section) ==
    IF entries = <<>> THEN 0
    ELSE TranslateEntry(kind, Head(entries), section).changes
         + Changes(kind, Tail(entries), section)

Translated(kind, entries, section) ==
    [i \in 1..Len(entries) |-> TranslateEntry(kind, entries[i], section).entry]

InjectInit ==
    /\ variant = "guarded"
    /\ l10nFile \in {MissingFile, MalformedFile} \cup { MapFile(m) : m \in ContributionMaps }
    /\ l10nMap = Null
    /\ stats = NoStats
    /\ enabled = TRUE
    /\ hook = "idle"
    /\ builds = 0
    /\ emitted = NoAssets
    /\ assets = NoAssets
    /\ passed = {}
    /\ reported = Null
    /\ EngineIdle
    /\ manifest \in ManifestFiles
    /\ packageJson = Null
    /\ changeCount = 0
    /\ stmt = "existsSync"
    /\ writes = 0

InjectFrame == UNCHANGED <<variant, stats, pluginVars, engineVars>>

\* if (!existsSync(l10nPath)) return
CheckExists ==
    /\ stmt = "existsSync"
    /\ stmt' = IF l10nFile.exists THEN "read" ELSE "returned"
    /\ UNCHANGED <<l10nMap, manifest, packageJson, changeCount, writes>>
    /\ InjectFrame

\* the two JSON.parse(readFileSync(...)): either may throw, which ends the script
ReadFiles ==
    /\ stmt = "read"
    /\ IF l10nFile.json = Null
       THEN stmt' = "thrown" /\ UNCHANGED <<l10nMap, packageJson>>
       ELSE /\ l10nMap' = l10nFile.json
            /\ IF manifest.json = Null
               THEN stmt' = "thrown" /\ UNCHANGED packageJson
               ELSE stmt' = "commands" /\ packageJson' = manifest.json
    /\ UNCHANGED <<manifest, changeCount, writes>>
    /\ InjectFrame

\* TranslateCommands that saves package.json as soon as the commands are done
TranslateCommandsAndSave ==
    /\ stmt = "commands"
    /\ LET section == l10nMap.contributions.commands IN
       IF section.present
       THEN /\ packageJson' = [packageJson EXCEPT
                                 !.commands = Translated("command", @, section)]
            /\ changeCount' = changeCount
                                + Changes("command", packageJson.commands, section)
       ELSE UNCHANGED <<packageJson, changeCount>>
    /\ manifest' = [json |-> packageJson', tabs |-> TRUE]
    /\ writes' = writes + 1
    /\ stmt' = "views"
    /\ UNCHANGED l10nMap
    /\ InjectFrame

\* 1. the commands
TranslateCommands ==
    /\ stmt = "commands"
    /\ LET section == l10nMap.contributions.commands IN
       IF section.present
       THEN /\ packageJson' = [packageJson EXCEPT
                                 !.commands = Translated("command", @, section)]
            /\ changeCount' = changeCount
                                + Changes("command", packageJson.commands, section)
       ELSE UNCHANGED <<packageJson, changeCount>>
    /\ stmt' = "views"
    /\ UNCHANGED <<l10nMap, manifest, writes>>
    /\ InjectFrame

RECURSIVE ContainerChanges(_, _)
ContainerChanges(containers, section) ==
    IF containers = <<>> THEN 0
    ELSE Changes("view", Head(containers).views, section)
         + ContainerChanges(Tail(containers), section)

\* 2. the views of every container
TranslateViews ==
    /\ stmt = "views"
    /\ LET section == l10nMap.contributions.views IN
       IF section.present
       THEN /\ packageJson' = [packageJson EXCEPT !.views =
                  [i \in 1..Len(@) |->
                      [@[i] EXCEPT !.views = Translated("view", @, section)]]]
            /\ changeCount' = changeCount + ContainerChanges(packageJson.views, section)
       ELSE UNCHANGED <<packageJson, changeCount>>
    /\ stmt' = "configuration"
    /\ UNCHANGED <<l10nMap, manifest, writes>>
    /\ InjectFrame

\* 3. the configuration properties
TranslateConfiguration ==
    /\ stmt = "configuration"
    /\ LET section == l10nMap.contributions.configuration IN
       IF section.present /\ packageJson.properties.present
       THEN /\ packageJson' = [packageJson EXCEPT !.properties.entries =
                                  Translated("property", @, section)]
            /\ changeCount' = changeCount
                  + Changes("property", packageJson.properties.entries, section)
       ELSE UNCHANGED <<packageJson, changeCount>>
    /\ stmt' = "write"
    /\ UNCHANGED <<l10nMap, manifest, writes>>
    /\ InjectFrame

\* writeFileSync(packagePath, JSON.stringify(packageJson, null, '\t') + '\n')
WriteBack ==
    /\ stmt = "write"
    /\ manifest' = [json |-> packageJson, tabs |-> TRUE]
    /\ writes' = writes + 1
    /\ stmt' = "returned"
    /\ UNCHANGED <<l10nMap, packageJson, changeCount>>
    /\ InjectFrame

InjectNext ==
    \/ CheckExists
    \/ ReadFiles
    \/ TranslateCommands
    \/ TranslateViews
    \/ TranslateConfiguration
    \/ WriteBack

SpecInject == InjectInit /\ [][InjectNext]_vars

----------------------------------------------------------------------------
(* Properties of the exact pass (checked under SpecEngine) *)

\* text with every occurrence of needle from position i on replaced by
\* replacement, the leftmost first, none overlapping
RECURSIVE LiteralReplace(_, _, _, _)
LiteralReplace(text, i, needle, replacement) ==
    IF i > Len(text) THEN <<>>
    ELSE IF HasAt(text, i, needle)
         THEN replacement \o LiteralReplace(text, i + Len(needle), needle, replacement)
    ELSE <<text[i]>> \o LiteralReplace(text, i + 1, needle, replacement)

\* text with the literal between two double quotes, two single quotes or two
\* backticks replaced by the translation between the same two, and nothing else
RECURSIVE Requoted(_, _, _, _)
Requoted(text, k, en, zh) ==
    IF k > Len(Quotes) THEN text
    ELSE Requoted(LiteralReplace(text, 1, <<Quotes[k]>> \o en \o <<Quotes[k]>>,
                                 <<Quotes[k]>> \o zh \o <<Quotes[k]>>),
                  k + 1, en, zh)

\* C5: an entry of webviews.exact whose key is no metadata marker either
\* leaves the text as it is or turns the occurrences of the literal between
\* two equal quote characters into the translation between the same quote
\* characters; every other occurrence of the literal stays. Claimed of both
\* plugin sources.
C5_QuotePreserved ==
    [][ (pass = "exact" /\ AtEntry /\ ~IsMetadataKey(CurrentEntry.en)) =>
            result' \in {result, Requoted(result, 1, CurrentEntry.en, CurrentEntry.zh)} ]_vars

----------------------------------------------------------------------------
(* Properties of injectLocalization (checked under SpecInject) *)

\* the translation of identifier id supplies field f
Supplies(section, id, f) ==
    Lookup(section, id).found /\ Truthy(Lookup(section, id).value[f])

Supplied(section, id, f) == Lookup(section, id).value[f]

Fields(entry) == DOMAIN entry \ {"command", "id", "key"}

\* entry became now: a field differs only where the translation of id
\* supplies it and the entry had it, and then it is the translation
GatedOnPresence(section, id, entry, now) ==
    \A f \in Fields(entry) :
        now[f] # entry[f] =>
            /\ Supplies(section, id, f)
            /\ entry[f] # Undefined
            /\ now[f] = Supplied(section, id, f)

\* C6 as claimed: of every command, view and configuration property, a
\* translatable field is overwritten only when the map has an entry for the
\* identifier that supplies the field and the manifest entry already has the
\* field, so that no entry gains a field; and a configuration property that
\* has both description fields, both translated, gets both.
C6_EveryFieldGatedOnPresence ==
    stmt = "write" =>
        LET c == l10nMap.contributions
            old == manifest.json
        IN  /\ \A i \in 1..Len(old.commands) :
                  GatedOnPresence(c.commands, old.commands[i].command,
                                  old.commands[i], packageJson.commands[i])
            /\ \A k \in 1..Len(old.views) : \A i \in 1..Len(old.views[k].views) :
                  GatedOnPresence(c.views, old.views[k].views[i].id,
                                  old.views[k].views[i], packageJson.views[k].views[i])
            /\ \A i \in 1..Len(old.properties.entries) :
                  LET e == old.properties.entries[i]
                      n == packageJson.properties.entries[i]
                  IN  /\ GatedOnPresence(c.configuration, e.key, e, n)
                      /\ (/\ e.description # Undefined
                          /\ e.markdownDescription # Undefined
                          /\ Supplies(c.configuration, e.key, "description")
                          /\ Supplies(c.configuration, e.key, "markdownDescription"))
                            => /\ n.description = Supplied(c.configuration, e.key, "description")
                               /\ n.markdownDescription
                                    = Supplied(c.configuration, e.key, "markdownDescription")

\* entry became now: every field the translation of id supplies is the
\* translation, whether the entry had the field or not; the others stay
OverwrittenWhenSupplied(section, id, entry, now) ==
    \A f \in Fields(entry) :
        now[f] = IF Supplies(section, id, f) THEN Supplied(section, id, f) ELSE entry[f]

\* entry became now: a field is the translation when the translation of id
\* supplies it and the entry had a non-empty one; the others stay
OverwrittenWhenSuppliedAndPresent(section, id, entry, now) ==
    \A f \in Fields(entry) :
        now[f] = IF Supplies(section, id, f) /\ Truthy(entry[f])
                 THEN Supplied(section, id, f) ELSE entry[f]

\* C6, amended: description and markdownDescription of a configuration
\* property are overwritten exactly when the map has an entry for the key
\* that supplies the field and the property already has a non-empty one, so
\* that no property gains a description field and a property with both
\* non-empty, both translated, gets both; title and category of a command,
\* name and contextualTitle of a view are overwritten whenever the map's
\* entry supplies them, also when the manifest entry had no such field; no
\* entry is added, dropped or reordered.
C6_DescriptionsGatedOnPresence ==
    stmt = "write" =>
        LET c == l10nMap.contributions
            old == manifest.json
        IN  /\ Len(packageJson.commands) = Len(old.commands)
            /\ \A i \in 1..Len(old.commands) :
                  /\ packageJson.commands[i].command = old.commands[i].command
                  /\ OverwrittenWhenSupplied(c.commands, old.commands[i].command,
                                             old.commands[i], packageJson.commands[i])
            /\ Len(packageJson.views) = Len(old.views)
            /\ \A k \in 1..Len(old.views) :
                  /\ Len(packageJson.views[k].views) = Len(old.views[k].views)
                  /\ \A i \in 1..Len(old.views[k].views) :
                        /\ packageJson.views[k].views[i].id = old.views[k].views[i].id
                        /\ OverwrittenWhenSupplied(c.views, old.views[k].views[i].id,
                               old.views[k].views[i], packageJson.views[k].views[i])
            /\ packageJson.properties.present = old.properties.present
            /\ Len(packageJson.properties.entries) = Len(old.properties.entries)
            /\ \A i \in 1..Len(old.properties.entries) :
                  /\ packageJson.properties.entries[i].key = old.properties.entries[i].key
                  /\ OverwrittenWhenSuppliedAndPresent(c.configuration,
                         old.properties.entries[i].key, old.properties.entries[i],
                         packageJson.properties.entries[i])

\* a property without markdownDescription whose translation supplies both
\* fields: the description is translated, no markdownDescription is gained
C6_Witness ==
    /\ stmt = "write"
    /\ \E i \in 1..Len(manifest.json.properties.entries) :
          LET e == manifest.json.properties.entries[i]
              n == packageJson.properties.entries[i]
              section == l10nMap.contributions.configuration
          IN  /\ e.markdownDescription = Undefined
              /\ Supplies(section, e.key, "markdownDescription")
              /\ Supplies(section, e.key, "description")
              /\ n.description = Supplied(section, e.key, "description")
              /\ n.markdownDescription = Undefined

\* C7: package.json is written at most once in a run, by the closing
\* writeFileSync alone, after the map was found and the map and the manifest
\* were both parsed; without a map the run returns at once with no change
\* counted and nothing written; a map or a manifest that does not parse ends
\* the run before any translation and with nothing written.
C7_WrittenOnceOrNotAtAll ==
    /\ [][ (manifest' # manifest \/ writes' # writes) =>
              /\ stmt = "write"
              /\ writes = 0
              /\ writes' = 1
              /\ l10nFile.exists
              /\ l10nFile.json # Null
              /\ manifest.json # Null
              /\ manifest'.json = packageJson ]_vars
    /\ [](~l10nFile.exists =>
              stmt \in {"existsSync", "returned"} /\ changeCount = 0 /\ writes = 0)
    /\ []((l10nFile.json = Null \/ manifest.json = Null) =>
              stmt \in {"existsSync", "read", "returned", "thrown"}
                 /\ changeCount = 0 /\ writes = 0)

\* the map parsed, the manifest did not: the run has ended, nothing written
C7_Witness ==
    /\ stmt = "thrown"
    /\ l10nMap # Null
    /\ manifest.json = Null
    /\ writes = 0

====
